---- MODULE Spec2Model ----
(***************************************************************************)
(* Model of the chart helpers of src/src/chart_layout.py (palette, Layout) *)
(* and src/src/charts.py (Visualize).                                      *)
(*                                                                         *)
(* Conventions.  Python strings that the code takes apart (column names,   *)
(* axis labels) are sequences of one-character strings; data-source        *)
(* strings are sequences of tokens; every other leaf value is a TLA+       *)
(* string.  A Python float is written as the string of its repr ("10.0"). *)
(* A call's outcome is a record whose field error is "none" or the name of *)
(* the Python exception that ended the call.                               *)
(***************************************************************************)
EXTENDS Integers, Sequences, FiniteSets, TLC

VARIABLES self, last, globals, history

vars == <<self, last, globals, history>>

(***************************************************************************)
(* Bounds of the model.                                                    *)
(***************************************************************************)
MaxIndex == 22
MaxCols == 2

(***************************************************************************)
(* chart_layout.py: module constants.                                      *)
(***************************************************************************)
HEIGHT == 500
\* np.sqrt(5), in thousandths
SQRT5_MILLI == 2236
\* WIDTH = HEIGHT * (1.5 + np.sqrt(5)) / 2, in thousandths of a pixel
WIDTH_MILLI == (HEIGHT * (1500 + SQRT5_MILLI)) \div 2
MARGIN == [l |-> 80, r |-> 80, t |-> 100, b |-> 80]
FONT_FAMILY == "Trebuchet MS"
FONT_SIZE == 16
TITLE_SIZE == FONT_SIZE + 8
GREY == "#EFECEA"
LIGHT_GREY == "#E5E2E0"
WHITE == "#FFFFFF"
DARK_TEXT == "#635F5D"
LIGHT_TEXT == "#8E8883"
PALETTE == << "#4e79a7", "#f28e2b", "#e15759", "#76b7b2", "#59a14f",
              "#edc948", "#b07aa1", "#ff9da7", "#9c755f", "#bab0ac" >>

\* The module-level names of chart_layout.py, as the interpreter holds them
\* once the module is loaded.  MARGIN and PALETTE are mutable objects (a
\* dict, a list) that every call shares.
ModuleGlobals ==
    [HEIGHT |-> HEIGHT, WIDTH |-> WIDTH_MILLI, MARGIN |-> MARGIN,
     FONT_FAMILY |-> FONT_FAMILY, FONT_SIZE |-> FONT_SIZE,
     TITLE_SIZE |-> TITLE_SIZE, GREY |-> GREY, LIGHT_GREY |-> LIGHT_GREY,
     WHITE |-> WHITE, DARK_TEXT |-> DARK_TEXT, LIGHT_TEXT |-> LIGHT_TEXT,
     PALETTE |-> PALETTE]

(***************************************************************************)
(* Python semantics the code relies on.                                    *)
(***************************************************************************)
\* seq[k] for a Python list: 0-based, negative k counts from the end,
\* anything else raises IndexError.
PyIndex(seq, k) ==
    IF 0 <= k /\ k < Len(seq) THEN seq[k + 1]
    ELSE IF k < 0 /\ 0 - Len(seq) <= k THEN seq[Len(seq) + k + 1]
    ELSE "IndexError"

\* dict.update: the keys of b win.
DictUpdate(a, b) ==
    [k \in DOMAIN a \cup DOMAIN b |-> IF k \in DOMAIN b THEN b[k] ELSE a[k]]

\* str.replace(old, new) for a one-character old.
RECURSIVE StrReplace(_, _, _)
StrReplace(s, old, new) ==
    IF s = << >> THEN << >>
    ELSE << (IF Head(s) = old THEN new ELSE Head(s)) >>
         \o StrReplace(Tail(s), old, new)

\* All sequences over S of length at most n.
SeqUpTo(S, n) == UNION { [1..k -> S] : k \in 0..n }

(***************************************************************************)
(* chart_layout.py: palette.                                               *)
(***************************************************************************)
\* the off-by-one a rewrite of the wraparound would make
palette_wrap_from_length(n, theme) ==
    LET color_length == Len(theme)
    IN  IF n > Len(theme) THEN PyIndex(theme, n - color_length)
        ELSE PyIndex(theme, n - 1)

palette(n, theme) ==
    LET color_length == Len(theme)
    IN  IF n > Len(theme) THEN PyIndex(theme, n - color_length - 1)
        ELSE PyIndex(theme, n - 1)

\* the keyword parameters palette accepts
PaletteParams == {"n", "theme"}

(***************************************************************************)
(* chart_layout.py: class Layout.                                          *)
(***************************************************************************)
\* An optional string argument: None, or a given text.
None == [given |-> FALSE, text |-> << >>]
Some(s) == [given |-> TRUE, text |-> s]

\* Layout.__init__
Layout(chart_title, xlabel, ylabel, y2label) ==
    [title |-> chart_title, xlabel |-> xlabel, ylabel |-> ylabel,
     y2label |-> y2label]

\* the methods class Layout defines
LayoutMethods ==
    {"__init__", "_annotations", "_canvas_white", "_axis_no_titles",
     "_legend_grey", "_format_to_y2", "one_axis_layout", "two_y_axes"}

\* A paper coordinate whole + num/den, with num and den in thousandths of a
\* pixel.
Coord(whole, num, den) == [whole |-> whole, num |-> num, den |-> den]

\* a ylabel placed one font size too high (the 20 px of padding left out)
ylabel_offset_without_padding == MARGIN.t - TITLE_SIZE

\* the pixel offset of the y-label's top above the plot area, y_tilt = 0
ylabel_offset == MARGIN.t - 20 - TITLE_SIZE - 0

_annotations(style) ==
    LET vertical_space == (HEIGHT - MARGIN.t - MARGIN.b) * 1000
        horizontal_space == WIDTH_MILLI - (MARGIN.l + MARGIN.r) * 1000
        title ==
            [x |-> Coord(0, 0 - (MARGIN.l - 20) * 1000, horizontal_space),
             y |-> Coord(1, (MARGIN.t - 10) * 1000, vertical_space),
             font |-> [size |-> TITLE_SIZE, color |-> DARK_TEXT],
             xref |-> "paper", xanchor |-> "left",
             yref |-> "paper", yanchor |-> "top",
             text |-> style.title, showarrow |-> FALSE]
        ylabel ==
            [x |-> Coord(0, 0 - (MARGIN.l - 20) * 1000, horizontal_space),
             y |-> Coord(1, ylabel_offset * 1000, vertical_space),
             font |-> [size |-> FONT_SIZE, color |-> LIGHT_TEXT],
             xref |-> "paper", xanchor |-> "left",
             yref |-> "paper", yanchor |-> "top",
             text |-> style.ylabel, showarrow |-> FALSE]
        xlabel ==
            [x |-> Coord(0, 1, 2),
             y |-> Coord(0, 0 - (MARGIN.b - 10) * 1000, vertical_space),
             font |-> [size |-> FONT_SIZE, color |-> LIGHT_TEXT],
             xref |-> "paper", xanchor |-> "center",
             yref |-> "paper", yanchor |-> "bottom",
             text |-> style.xlabel, showarrow |-> FALSE]
    IN  <<title, ylabel, xlabel>>

_canvas_white(style) ==
    LET font_dict == [family |-> FONT_FAMILY]
    IN  [width |-> WIDTH_MILLI, height |-> HEIGHT, font |-> font_dict,
         hoverlabel |-> [font |-> font_dict],
         plot_bgcolor |-> WHITE, paper_bgcolor |-> WHITE,
         margin |-> MARGIN, annotations |-> _annotations(style)]

\* axis_args is None (not given) or a dict.
NoDict == [given |-> FALSE, dict |-> << >>]
Dict(d) == [given |-> TRUE, dict |-> d]

_axis_no_titles(axis_args) ==
    LET grid_width == 2
        axis_layout ==
            [tickfont |-> [size |-> FONT_SIZE], ticklen |-> 5,
             tickwidth |-> grid_width, showgrid |-> TRUE,
             gridcolor |-> WHITE, gridwidth |-> grid_width,
             zeroline |-> FALSE, linewidth |-> 6, linecolor |-> GREY]
    IN  IF axis_args.given THEN DictUpdate(axis_layout, axis_args.dict)
        ELSE axis_layout

_legend_grey ==
    [bgcolor |-> LIGHT_GREY, bordercolor |-> LIGHT_GREY, borderwidth |-> 1,
     font |-> [size |-> FONT_SIZE, color |-> DARK_TEXT],
     xanchor |-> "left", yanchor |-> "bottom", x |-> "1.08", y |-> "0."]

_format_to_y2(axis) ==
    LET a == IF "overlaying" \notin DOMAIN axis
             THEN DictUpdate(axis, [overlaying |-> "y"]) ELSE axis
    IN  IF "side" \notin DOMAIN a
        THEN DictUpdate(a, [side |-> "right"]) ELSE a

\* What a call of a Layout method ends with: the layout it returns, or the
\* exception it raises.
NoLayout == [absent |-> TRUE]
Returned(layout) == [error |-> "none", layout |-> layout]
Raised(e) == [error |-> e, layout |-> NoLayout]

one_axis_layout(style, axis_setting) ==
    LET canvas == _canvas_white(style)
        x_axis == IF axis_setting.given /\ "x" \in DOMAIN axis_setting.dict
                  THEN Dict(axis_setting.dict["x"]) ELSE NoDict
        y_axis == IF axis_setting.given /\ "y" \in DOMAIN axis_setting.dict
                  THEN Dict(axis_setting.dict["y"]) ELSE NoDict
    IN  Returned([xaxis |-> _axis_no_titles(x_axis),
                  yaxis |-> _axis_no_titles(y_axis),
                  legend |-> _legend_grey,
                  canvas |-> canvas])

\* two_y_axes(axis_args, **kwargs).  It reads axis_args['y2'] first; in
\* self._white_axis_no_titles(axis_args['x']) Python looks the method up on
\* the instance before it evaluates the argument, and class Layout defines
\* no such method (its definition is commented out).
two_y_axes(style, axis_args) ==
    LET canvas == _canvas_white(style)
    IN  IF "y2" \notin DOMAIN axis_args THEN Raised("KeyError")
        ELSE LET y2_args == _format_to_y2(axis_args["y2"])
             IN  IF "_white_axis_no_titles" \notin LayoutMethods
                 THEN Raised("AttributeError")
                 ELSE IF "x" \notin DOMAIN axis_args
                         \/ "y" \notin DOMAIN axis_args
                 THEN Raised("KeyError")
                 ELSE Returned([xaxis |-> axis_args["x"],
                                yaxis |-> axis_args["y"],
                                yaxis2 |-> y2_args,
                                legend |-> _legend_grey,
                                canvas |-> canvas])

\* style.<method>(axis_args=..., **kwargs), as the chart methods call it:
\* attribute lookup on the Layout instance, then the call with keyword
\* arguments.  two_y_axes takes axis_args and swallows any other keyword;
\* one_axis_layout names its parameter axis_setting and takes no other
\* keyword; the private helpers take no keyword at all.
LayoutCall(style, method, axis_args, kwargs) ==
    IF method \notin LayoutMethods THEN Raised("AttributeError")
    ELSE IF method = "two_y_axes"
    THEN (IF axis_args.given THEN two_y_axes(style, axis_args.dict)
          ELSE Raised("TypeError"))
    ELSE IF method = "one_axis_layout" /\ ~axis_args.given
            /\ DOMAIN kwargs = {}
    THEN one_axis_layout(style, NoDict)
    ELSE Raised("TypeError")

(***************************************************************************)
(* Data: column names, tables, data sources.                               *)
(***************************************************************************)
month == <<"m">>
sales_a == <<"s", "_", "a">>
_b == <<"_", "b">>
t_x == <<"t", "_", "x">>
no_col == <<"z", "_">>

\* A pandas DataFrame: column name -> entries; self.df is one, or None.
Table1 ==
    (month :> <<"Jan", "Feb">>) @@ (sales_a :> <<"10", "20">>)
    @@ (_b :> <<"2e1", "10">>) @@ (t_x :> <<"10", "abc">>)
Table2 ==
    (month :> <<"Feb">>) @@ (sales_a :> <<"20">>)
    @@ (_b :> <<"abc">>) @@ (t_x :> <<"10">>)
Tables == {Table1, Table2}
DataFrame(t) == [isNone |-> FALSE, cols |-> t]
NoneFrame == [isNone |-> TRUE, cols |-> << >>]

\* float(v) of a column entry: the repr of the float, or ValueError.
Float(v) ==
    CASE v = "10" -> "10.0"
      [] v = "20" -> "20.0"
      [] v = "2e1" -> "20.0"
      [] OTHER -> "ValueError"

\* a coercion that passes non-numeric entries through
FloatsOf_lenient(entries) ==
    [error |-> "none",
     values |-> [i \in 1..Len(entries) |->
                   IF Float(entries[i]) = "ValueError" THEN entries[i]
                   ELSE Float(entries[i])]]

\* [float(v) for v in entries]
FloatsOf(entries) ==
    IF \E i \in 1..Len(entries) : Float(entries[i]) = "ValueError"
    THEN [error |-> "ValueError", values |-> << >>]
    ELSE [error |-> "none",
          values |-> [i \in 1..Len(entries) |-> Float(entries[i])]]

\* self.df[name]: the exception it raises, or "none".
Lookup(df, name) ==
    IF df.isNone THEN "TypeError"
    ELSE IF name \notin DOMAIN df.cols THEN "KeyError"
    ELSE "none"

\* Data-source strings, as token sequences; "x" is any other text.
URL == "https://docs.google.com/spreadsheets"
RawStrings ==
    { p \o m \o t :
        p \in {<< >>, <<URL>>, <<"x">>},
        m \in {<< >>, <<"SELECT", "x", "FROM">>, <<"SELECT", "\n", "FROM">>,
               <<"SELECT", "FROM">>},
        t \in {<< >>, <<"x">>, <<".csv">>, <<".csv", "x">>} }

RawFrame(t) == [type |-> "DataFrame", df |-> DataFrame(t), s |-> << >>]
RawStr(s) == [type |-> "str", df |-> NoneFrame, s |-> s]
RawOther == [type |-> "int", df |-> NoneFrame, s |-> << >>]
RawInputs ==
    {RawFrame(t) : t \in Tables} \cup {RawStr(s) : s \in RawStrings}
    \cup {RawOther}

\* re.match(r'(|.+)SELECT.+FROM.+', s)
MatchQuery(s) ==
    \E i, j \in 1..Len(s) :
        s[i] = "SELECT" /\ s[j] = "FROM" /\ j > i + 1 /\ j < Len(s)
\* re.match(r'https://docs.google.com\/spreadsheets', s)
MatchGsheet(s) == Len(s) >= 1 /\ s[1] = URL
\* s[-4:] == '.csv'
EndsCsv(s) == Len(s) >= 1 /\ s[Len(s)] = ".csv"

(***************************************************************************)
(* charts.py: class Visualize.                                             *)
(***************************************************************************)
\* the methods class Visualize defines
VisualizeMethods ==
    {"__init__", "_to_dataframe", "_format_labels", "_make_hbar_plot",
     "_make_vbar_plot", "_make_dist_plot", "_make_scatter_plot",
     "bar", "combo", "dist", "line", "scatter", "pie"}

\* What pd.read_csv may do: return a table, or raise.
CsvResults == {DataFrame(t) : t \in Tables} \cup {NoneFrame}

Loaded(df, loaders, stdout) ==
    [error |-> "none", df |-> df, loaders |-> loaders, log |-> << >>,
     stdout |-> stdout]
LoadFailed(e, loaders, stdout) ==
    [error |-> e, df |-> NoneFrame, loaders |-> loaders, log |-> << >>,
     stdout |-> stdout]

\* _to_dataframe(raw); csv is what pd.read_csv does if it is called
\* (NoneFrame: it raises).
_to_dataframe(raw, csv) ==
    IF raw.type = "DataFrame" THEN Loaded(raw.df, << >>, << >>)
    ELSE
    LET raw_string == StrReplace(raw.s, "\n", " ")
        stdout == <<raw_string>>
        unknown ==
            [error |-> "none", df |-> NoneFrame, loaders |-> << >>,
             log |-> <<"Unknown data type. Please ping weijian.">>,
             stdout |-> IF raw.type = "str" THEN stdout ELSE << >>]
    IN  IF raw.type # "str" THEN unknown
        ELSE IF MatchQuery(raw_string)
        THEN (IF "_process_bigquery" \in VisualizeMethods
              THEN Loaded(NoneFrame, <<"_process_bigquery">>, stdout)
              ELSE LoadFailed("AttributeError", << >>, stdout))
        ELSE IF MatchGsheet(raw_string)
        THEN (IF "_process_gsheet" \in VisualizeMethods
              THEN Loaded(NoneFrame, <<"_process_gsheet">>, stdout)
              ELSE LoadFailed("AttributeError", << >>, stdout))
        ELSE IF EndsCsv(raw_string)
        THEN (IF csv.isNone
              THEN LoadFailed("FileNotFoundError", <<"pd.read_csv">>, stdout)
              ELSE Loaded(csv, <<"pd.read_csv">>, stdout))
        ELSE unknown

\* a formatter that tidies the override too
_format_labels_tidy_override(column_name, label) ==
    IF ~label.given THEN StrReplace(column_name, "_", " ")
    ELSE StrReplace(label.text, "_", " ")

\* _format_labels(column_name, label=None), column_name a str
_format_labels(column_name, label) ==
    IF ~label.given THEN StrReplace(column_name, "_", " ")
    ELSE label.text

\* A value-column argument: one name (a str) or a list of names.
Str(name) == [isList |-> FALSE, str |-> name, list |-> << >>]
List(names) == [isList |-> TRUE, str |-> << >>, list |-> names]
\* y if isinstance(y, list) else [y]
AsList(y) == IF y.isList THEN y.list ELSE <<y.str>>

\* What building one trace ends with: the trace, or the exception raised.
NoTrace == [absent |-> TRUE]
Plot(trace) == [error |-> "none", trace |-> trace]
NoPlot(e) == [error |-> e, trace |-> NoTrace]

\* The first of several errors in evaluation order ("none" if all are).
FirstError(errors) ==
    IF \A i \in 1..Len(errors) : errors[i] = "none" THEN "none"
    ELSE errors[CHOOSE i \in 1..Len(errors) :
                    /\ errors[i] # "none"
                    /\ \A j \in 1..(i - 1) : errors[j] = "none"]

\* the exception raised while evaluating [float(v) for v in self.df[y]]
CoerceError(df, y) ==
    IF Lookup(df, y) # "none" THEN Lookup(df, y)
    ELSE FloatsOf(df.cols[y]).error

PaletteError(n) == IF palette(n, PALETTE) = "IndexError" THEN "IndexError"
                   ELSE "none"

_make_hbar_plot(df, x, y, n) ==
    LET e == FirstError(<<CoerceError(df, y), Lookup(df, x), PaletteError(n)>>)
    IN  IF e # "none" THEN NoPlot(e)
        ELSE Plot([type |-> "bar", x |-> FloatsOf(df.cols[y]).values,
                   y |-> df.cols[x], name |-> y,
                   marker |-> [color |-> palette(n, PALETTE)],
                   orientation |-> "h"])

_make_vbar_plot(df, x, y, n) ==
    LET e == FirstError(<<CoerceError(df, y), Lookup(df, x), PaletteError(n)>>)
    IN  IF e # "none" THEN NoPlot(e)
        ELSE Plot([type |-> "bar", x |-> df.cols[x],
                   y |-> FloatsOf(df.cols[y]).values, name |-> y,
                   marker |-> [color |-> palette(n, PALETTE)]])

_make_dist_plot(df, column_name, n, overlay, prob, cumsum) ==
    LET opacity == IF overlay THEN ".5" ELSE "None"
        histogram_mode == IF prob THEN "probability" ELSE "None"
        e == FirstError(<<CoerceError(df, column_name), PaletteError(n)>>)
    IN  IF e # "none" THEN NoPlot(e)
        ELSE Plot([type |-> "histogram",
                   x |-> FloatsOf(df.cols[column_name]).values,
                   opacity |-> opacity, name |-> column_name,
                   marker |-> [color |-> palette(n, PALETTE)],
                   histnorm |-> histogram_mode,
                   cumulative |-> [enabled |-> cumsum]])

_make_scatter_plot(df, x, y, n, mode) ==
    LET e == FirstError(<<CoerceError(df, y), Lookup(df, x), PaletteError(n)>>)
    IN  IF e # "none" THEN NoPlot(e)
        ELSE Plot([type |-> "scatter", x |-> df.cols[x],
                   y |-> FloatsOf(df.cols[y]).values, name |-> y,
                   mode |-> mode,
                   marker |-> [color |-> palette(n, PALETTE)]])

\* the go.Scatter of combo's second loop: x=self.df[x] is evaluated first
combo_line(df, x, line_name, n) ==
    LET e == FirstError(<<Lookup(df, x), CoerceError(df, line_name),
                          PaletteError(n + 1)>>)
    IN  IF e # "none" THEN NoPlot(e)
        ELSE Plot([type |-> "scatter", x |-> df.cols[x],
                   y |-> FloatsOf(df.cols[line_name]).values,
                   name |-> line_name, mode |-> "lines+markers",
                   marker |-> [color |-> palette(n + 1, PALETTE)],
                   yaxis |-> "y2"])

\* What a chart call ends with.  data: the traces built when it ended;
\* annotations: the labels computed, if it got that far; figures: what it
\* handed to py.offline.iplot; ret: the value returned, if it returned.
NoAnnotations == [absent |-> TRUE]
Outcome(error, data, annotations, figures, ret) ==
    [error |-> error, data |-> data, annotations |-> annotations,
     figures |-> figures, ret |-> ret]
Raise(e, data, annotations) ==
    Outcome(e, data, annotations, << >>, "no value")

\* A loop "for n, name in enumerate(names): data.append(plot)": plots[j] is
\* what building the j-th trace ends with.  The traces appended before the
\* first failure, and that failure.
LoopError(plots) == FirstError([j \in 1..Len(plots) |-> plots[j].error])
LoopData(plots) ==
    LET ok == { j \in 1..Len(plots) :
                  \A i \in 1..j : plots[i].error = "none" }
    IN  [j \in 1..Cardinality(ok) |-> plots[j].trace]

\* figure = go.Figure(data, layout); py.offline.iplot(figure); return ret
Render(data, annotations, call, ret) ==
    IF call.error # "none" THEN Raise(call.error, data, annotations)
    ELSE Outcome("none", data, annotations,
                 << [data |-> data, layout |-> call.layout] >>, ret)

RangeArgs(keys) == Dict([k \in keys |-> [range |-> "None"]])

NoKwargs == [k \in {} |-> "None"]

bar(df, x, y, title, stack, horizontal, xlabel, ylabel) ==
    LET ys == AsList(y)
        plots == [j \in 1..Len(ys) |->
                    IF horizontal THEN _make_hbar_plot(df, x, ys[j], j - 1)
                    ELSE _make_vbar_plot(df, x, ys[j], j - 1)]
        data == LoopData(plots)
    IN  IF LoopError(plots) # "none"
        THEN Raise(LoopError(plots), data, NoAnnotations)
        ELSE IF ys = << >> THEN Raise("IndexError", data, NoAnnotations)
        ELSE
        LET annotations ==
                [chart_title |-> title,
                 xlabel |-> _format_labels(x, xlabel),
                 ylabel |-> _format_labels(ys[1], ylabel)]
            style == Layout(title, annotations.xlabel, annotations.ylabel,
                            None)
            call == LayoutCall(style, "default", RangeArgs({"x", "y"}),
                        [barmode |-> IF stack THEN "stack" ELSE "None"])
        IN  Render(data, annotations, call, "True")

combo(df, x, bars, lines, title, xlabel, bar_label, line_label, stack) ==
    LET bs == AsList(bars)
        ls == AsList(lines)
        plots == [j \in 1..Len(bs) |-> _make_vbar_plot(df, x, bs[j], j - 1)]
                 \o [j \in 1..Len(ls) |-> combo_line(df, x, ls[j], j - 1)]
        data == LoopData(plots)
    IN  IF LoopError(plots) # "none"
        THEN Raise(LoopError(plots), data, NoAnnotations)
        ELSE IF bs = << >> \/ ls = << >>
        THEN Raise("IndexError", data, NoAnnotations)
        ELSE
        LET annotations ==
                [chart_title |-> title,
                 xlabel |-> _format_labels(x, xlabel),
                 ylabel |-> _format_labels(bs[1], bar_label),
                 y2label |-> _format_labels(ls[1], line_label)]
            style == Layout(title, annotations.xlabel, annotations.ylabel,
                            Some(annotations.y2label))
            call == LayoutCall(style, "two_y_axes",
                        RangeArgs({"x", "y", "y2"}),
                        [barmode |-> IF stack THEN "stack" ELSE "None"])
        IN  Render(data, annotations, call, "True")

Count == <<"C", "o", "u", "n", "t">>
Probability ==
    <<"P", "r", "o", "b", "a", "b", "i", "l", "i", "t", "y", " ", "(", "%",
      ")">>

\* In dist, _format_labels(values, label) gets the argument as passed: a
\* list has no replace method.
dist(df, values, title, label, overlay, prob, cumsum) ==
    LET ys == AsList(values)
        plots == [j \in 1..Len(ys) |->
                    _make_dist_plot(df, ys[j], j - 1, overlay, prob, cumsum)]
        data == LoopData(plots)
    IN  IF LoopError(plots) # "none"
        THEN Raise(LoopError(plots), data, NoAnnotations)
        ELSE IF values.isList /\ ~label.given
        THEN Raise("AttributeError", data, NoAnnotations)
        ELSE
        LET annotations ==
                [chart_title |-> title,
                 xlabel |-> IF values.isList THEN label.text
                            ELSE _format_labels(values.str, label),
                 ylabel |-> IF prob THEN Probability ELSE Count]
            style == Layout(title, annotations.xlabel, annotations.ylabel,
                            None)
            call == LayoutCall(style, "default", RangeArgs({"x", "y"}),
                        [barmode |-> IF overlay THEN "overlay" ELSE "None"])
        IN  Render(data, annotations, call, "True")

\* line and scatter: the same body but for the mode; neither has a return
\* statement, so a call that gets to the end returns None.
scatter_chart(df, x, y, title, xlabel, ylabel, mode) ==
    LET ys == AsList(y)
        plots == [j \in 1..Len(ys) |->
                    _make_scatter_plot(df, x, ys[j], j - 1, mode)]
        data == LoopData(plots)
    IN  IF LoopError(plots) # "none"
        THEN Raise(LoopError(plots), data, NoAnnotations)
        ELSE IF ys = << >> THEN Raise("IndexError", data, NoAnnotations)
        ELSE
        LET annotations ==
                [chart_title |-> title,
                 xlabel |-> _format_labels(x, xlabel),
                 ylabel |-> _format_labels(ys[1], ylabel)]
            style == Layout(title, annotations.xlabel, annotations.ylabel,
                            None)
            call == LayoutCall(style, "default", RangeArgs({"x", "y"}),
                               NoKwargs)
        IN  Render(data, annotations, call, "None")

line(df, x, y, title, xlabel, ylabel) ==
    scatter_chart(df, x, y, title, xlabel, ylabel, "lines+markers")

scatter(df, x, y, title, xlabel, ylabel) ==
    scatter_chart(df, x, y, title, xlabel, ylabel, "markers")

\* pie(x, y): x and y are column names; go.Pie's arguments are evaluated
\* in order, the last being palette(as_list=True); y[0] is the first
\* character of the name y.
pie(df, x, y, title, xlabel, ylabel) ==
    LET e == FirstError(<<Lookup(df, x), CoerceError(df, y),
                          IF "as_list" \in PaletteParams THEN "none"
                          ELSE "TypeError">>)
    IN  IF e # "none" THEN Raise(e, << >>, NoAnnotations)
        ELSE IF y = << >> THEN Raise("IndexError", << >>, NoAnnotations)
        ELSE
        LET trace == [type |-> "pie", labels |-> df.cols[x],
                      values |-> FloatsOf(df.cols[y]).values, name |-> x,
                      hole |-> ".4", marker |-> [colors |-> PALETTE]]
            annotations ==
                [chart_title |-> title,
                 xlabel |-> _format_labels(x, xlabel),
                 ylabel |-> _format_labels(<<PyIndex(y, 0)>>, ylabel)]
            style == Layout(title, annotations.xlabel, annotations.ylabel,
                            None)
            call == LayoutCall(style, "default", NoDict, NoKwargs)
        IN  Render(<<trace>>, annotations, call, "None")

(***************************************************************************)
(* Inputs of the calls.                                                    *)
(***************************************************************************)
XNames == {month, no_col}
ValueNames == {sales_a, t_x}
ValueArgs ==
    {Str(n) : n \in ValueNames}
    \cup {List(l) : l \in SeqUpTo(ValueNames, MaxCols)}
a_b == <<"a", "_", "b">>
Labels == {None, Some(a_b)}
\* explicit axis labels: none given, or both
LabelPairs == {<<None, None>>, <<Some(a_b), Some(month)>>}
ValueLists == {List(l) : l \in SeqUpTo(ValueNames, MaxCols)}
\* bars and lines of a combo call: two names, or two lists of at most
\* MaxCols + 1 names in all
ComboArgs ==
    { bl \in ValueLists \X ValueLists :
        Len(bl[1].list) + Len(bl[2].list) <= MaxCols + 1 }
    \cup { <<Str(b), Str(l)>> : b \in ValueNames, l \in ValueNames }
Themes == {PALETTE, <<"#111111", "#222222", "#333333">>, <<"#111111">>}
AxisDicts == {[range |-> "None"], [range |-> "[0, 10]", side |-> "left"]}
AxisArgs ==
    UNION { [keys -> AxisDicts] : keys \in SUBSET {"x", "y", "y2"} }

(***************************************************************************)
(* The state: the Visualize instance the caller holds (none at first), the *)
(* last call made, with its arguments and what it ended with, and the      *)
(* module-level names of chart_layout.py.  history records the dataset the *)
(* instance was constructed with and whether no, one or several chart      *)
(* calls have been made on it since.                                       *)
(***************************************************************************)
NoInstance == [exists |-> FALSE]
NoHistory == [constructed |-> NoneFrame, calls |-> "none"]

\* What __init__ leaves in the instance, df being what _to_dataframe
\* returned.
NewInstance(df) ==
    [exists |-> TRUE,
     project_id |-> "woven-bonbon-90705",
     df |-> df,
     annotations |-> << >>,
     barmode |-> "None"]

\* a chart method that drops the dataset when the call fails
AfterChart_forget_on_failure(obj, out) ==
    IF out.error # "none" THEN [obj EXCEPT !.df = NoneFrame] ELSE obj

\* What a chart method leaves in the instance, out being what the call
\* ended with: data, annotations, style, layout and figure are locals, no
\* method assigns an attribute of self or an entry of self.df.
AfterChart(obj, out) == obj

Init ==
    /\ self = NoInstance
    /\ last = [op |-> "import"]
    /\ globals = ModuleGlobals
    /\ history = NoHistory

\* Visualize(raw): __init__.  When _to_dataframe raises, no instance is
\* made and the caller keeps what it had.
Visualize(raw, csv) ==
    LET out == _to_dataframe(raw, csv)
    IN  /\ last' = [op |-> "Visualize", args |-> [data |-> raw], out |-> out]
        /\ self' = IF out.error # "none" THEN self ELSE NewInstance(out.df)
        /\ history' = IF out.error # "none" THEN history
                      ELSE [constructed |-> out.df, calls |-> "none"]
        /\ UNCHANGED globals

\* The rest of a chart call: what it leaves in the instance and in the
\* module, and one more call in the instance's history.
Called ==
    /\ self' = AfterChart(self, last'.out)
    /\ history' = [history EXCEPT
                      !.calls = IF @ = "none" THEN "one" ELSE "several"]
    /\ UNCHANGED globals

New ==
    \E raw \in RawInputs :
        \E csv \in (IF raw.type = "str" /\ EndsCsv(raw.s) THEN CsvResults
                    ELSE {NoneFrame}) :
            Visualize(raw, csv)

Bar ==
    /\ self.exists
    /\ \E x \in XNames, y \in ValueArgs, stack \in BOOLEAN,
          horizontal \in BOOLEAN, labels \in LabelPairs :
          last' = [op |-> "bar",
                   args |-> [x |-> x, y |-> y, title |-> "Sales",
                             stack |-> stack, horizontal |-> horizontal,
                             xlabel |-> labels[1], ylabel |-> labels[2]],
                   out |-> bar(self.df, x, y, "Sales", stack, horizontal,
                               labels[1], labels[2])]
    /\ Called

Combo ==
    /\ self.exists
    /\ \E x \in XNames, bl \in ComboArgs :
          last' = [op |-> "combo",
                   args |-> [x |-> x, bars |-> bl[1], lines |-> bl[2],
                             title |-> "Sales", xlabel |-> None,
                             bar_label |-> None, line_label |-> None,
                             stack |-> FALSE],
                   out |-> combo(self.df, x, bl[1], bl[2], "Sales", None,
                                 None, None, FALSE)]
    /\ Called

Dist ==
    /\ self.exists
    /\ \E values \in ValueArgs, label \in Labels, prob \in BOOLEAN :
          last' = [op |-> "dist",
                   args |-> [values |-> values, title |-> "Sales",
                             label |-> label, overlay |-> FALSE,
                             prob |-> prob, cumsum |-> FALSE],
                   out |-> dist(self.df, values, "Sales", label, FALSE,
                                prob, FALSE)]
    /\ Called

Line ==
    /\ self.exists
    /\ \E x \in XNames, y \in ValueArgs, labels \in LabelPairs :
          last' = [op |-> "line",
                   args |-> [x |-> x, y |-> y, title |-> "None",
                             xlabel |-> labels[1], ylabel |-> labels[2]],
                   out |-> line(self.df, x, y, "None", labels[1], labels[2])]
    /\ Called

Scatter ==
    /\ self.exists
    /\ \E x \in XNames, y \in ValueArgs :
          last' = [op |-> "scatter",
                   args |-> [x |-> x, y |-> y, title |-> "None",
                             xlabel |-> None, ylabel |-> None],
                   out |-> scatter(self.df, x, y, "None", None, None)]
    /\ Called

Pie ==
    /\ self.exists
    /\ \E x \in XNames, y \in ValueNames \cup {no_col},
          labels \in LabelPairs :
          last' = [op |-> "pie",
                   args |-> [x |-> x, y |-> y, title |-> "None",
                             xlabel |-> labels[1], ylabel |-> labels[2]],
                   out |-> pie(self.df, x, y, "None", labels[1], labels[2])]
    /\ Called

\* palette(n, theme), called directly
Palette ==
    /\ \E n \in (0 - MaxIndex)..MaxIndex, theme \in Themes :
          last' = [op |-> "palette", args |-> [n |-> n, theme |-> theme],
                   out |-> [error |-> IF palette(n, theme) = "IndexError"
                                      THEN "IndexError" ELSE "none",
                            ret |-> palette(n, theme)]]
    /\ UNCHANGED <<self, globals, history>>

\* Layout(title, xlabel, ylabel).one_axis_layout(axis_setting)
OneAxisLayout ==
    /\ \E xlabel \in {month, a_b}, ylabel \in {sales_a, Count},
          axis_setting \in {NoDict} \cup {Dict(d) : d \in AxisArgs} :
          last' = [op |-> "one_axis_layout",
                   args |-> [title |-> "Sales", xlabel |-> xlabel,
                             ylabel |-> ylabel,
                             axis_setting |-> axis_setting],
                   out |-> one_axis_layout(
                               Layout("Sales", xlabel, ylabel, None),
                               axis_setting)]
    /\ UNCHANGED <<self, globals, history>>

\* Layout(title, xlabel, ylabel, y2label).two_y_axes(axis_args)
TwoYAxes ==
    /\ \E y2label \in Labels, axis_args \in AxisArgs :
          last' = [op |-> "two_y_axes",
                   args |-> [title |-> "Sales", xlabel |-> month,
                             ylabel |-> sales_a, y2label |-> y2label,
                             axis_args |-> axis_args],
                   out |-> two_y_axes(
                               Layout("Sales", month, sales_a, y2label),
                               axis_args)]
    /\ UNCHANGED <<self, globals, history>>

\* The calls on a Visualize instance.
Next ==
    \/ New
    \/ Bar
    \/ Combo
    \/ Dist
    \/ Line
    \/ Scatter
    \/ Pie

Spec == Init /\ [][Next]_vars

\* The module-level function palette, on its own.
SpecPalette == Init /\ [][Palette]_vars

\* The public methods of Layout, on their own.
NextLayout ==
    \/ OneAxisLayout
    \/ TwoYAxes

SpecLayout == Init /\ [][NextLayout]_vars

(***************************************************************************)
(* Properties.                                                             *)
(***************************************************************************)
ChartOps == {"bar", "combo", "dist", "line", "scatter", "pie"}
IsChart == last.op \in ChartOps
IsPalette == last.op = "palette"

\* C1. Palette cyclic law on the 10-colour default theme: for 1 <= i <=
\* length, palette(i) is the i-th colour of the theme; for length < i <=
\* 2*length it is the colour palette(i - length) returns, the (i - length)-th.
C1_CyclicLaw ==
    (IsPalette /\ last.args.theme = PALETTE) =>
        LET i == last.args.n
            length == Len(PALETTE)
        IN  /\ (1 <= i /\ i <= length) => last.out.ret = PALETTE[i]
            /\ (length < i /\ i <= 2 * length) =>
                   last.out.ret = PALETTE[i - length]

\* a lookup on the default theme in the wrapped range has returned
C1_Witness ==
    /\ IsPalette
    /\ last.args.theme = PALETTE
    /\ last.args.n = 2 * Len(PALETTE)
    /\ last.out.ret = PALETTE[Len(PALETTE)]

\* C7. Palette lookup is total and modulo-cyclic: for every index n >= 1,
\* also beyond 2*length, palette(n) returns without error the colour at
\* 0-based position (n - 1) mod length of the theme (here the default one).
C7_ModuloLaw ==
    (IsPalette /\ last.args.theme = PALETTE /\ last.args.n >= 1) =>
        /\ last.out.error = "none"
        /\ last.out.ret =
               last.args.theme[((last.args.n - 1) % Len(last.args.theme)) + 1]

\* The value columns a chart call references, in order, and its category
\* column (dist has none).
ValueColumns ==
    IF last.op = "combo"
    THEN AsList(last.args.bars) \o AsList(last.args.lines)
    ELSE IF last.op = "dist" THEN AsList(last.args.values)
    ELSE IF last.op = "pie" THEN <<last.args.y>>
    ELSE AsList(last.args.y)
Referenced ==
    {ValueColumns[j] : j \in 1..Len(ValueColumns)}
    \cup (IF last.op = "dist" THEN {} ELSE {last.args.x})
Numeric(v) == v \in {"10", "20", "2e1"}
\* some entry of some referenced value column is not a number
HasBadEntry ==
    /\ ~self.df.isNone
    /\ \E j \in 1..Len(ValueColumns) :
          /\ ValueColumns[j] \in DOMAIN self.df.cols
          /\ \E i \in 1..Len(self.df.cols[ValueColumns[j]]) :
                ~Numeric(self.df.cols[ValueColumns[j]][i])
AllColumnsExist ==
    /\ ~self.df.isNone
    /\ Referenced \subseteq DOMAIN self.df.cols

\* C2. In a combo call the j-th bar trace is coloured palette(j) and the
\* j-th line trace palette(j + 1), j counted from 1 (bars=[a], lines=[b, c]:
\* indices 1, 2, 3).
C2_ComboColours ==
    (last.op = "combo") =>
        LET nbars == Len(AsList(last.args.bars))
        IN  \A k \in 1..Len(last.out.data) :
                last.out.data[k].marker.color =
                    IF k <= nbars THEN PALETTE[k]
                    ELSE PALETTE[(k - nbars) + 1]

ValidCall ==
    /\ AllColumnsExist
    /\ ~HasBadEntry
    /\ ValueColumns # << >>
    /\ last.op = "combo" =>
           AsList(last.args.bars) # << >> /\ AsList(last.args.lines) # << >>

\* the float of a numeric entry, as the renderer is to receive it
AsFloat(v) == IF v = "10" THEN "10.0" ELSE "20.0"
AsFloats(entries) == [i \in 1..Len(entries) |-> AsFloat(entries[i])]

\* a column name with its underscores turned into spaces
Spaced(col) == [i \in 1..Len(col) |-> IF col[i] = "_" THEN " " ELSE col[i]]
\* the label the contract gives a column and an optional override
Label(col, override) == IF override.given THEN override.text ELSE Spaced(col)

\* C4. A bar call with value columns y1..ym and category column x hands the
\* renderer a scene of exactly m traces in the order of y, the j-th with the
\* entries of x as x-values and the floats of yj as y-values (the other way
\* round when horizontal is set); the default x-label is the name of x, the
\* default y-label the name of y1, and the bar mode is stacked exactly when
\* stack is set.
C4_BarScene ==
    (last.op = "bar" /\ ValidCall) =>
        LET ys == AsList(last.args.y)
            cat == self.df.cols[last.args.x]
        IN  /\ Len(last.out.figures) = 1
            /\ Len(last.out.figures[1].data) = Len(ys)
            /\ \A j \in 1..Len(ys) :
                  LET trace == last.out.figures[1].data[j]
                      values == AsFloats(self.df.cols[ys[j]])
                  IN  IF last.args.horizontal
                      THEN trace.x = values /\ trace.y = cat
                      ELSE trace.x = cat /\ trace.y = values
            /\ last.out.annotations.xlabel =
                   Label(last.args.x, last.args.xlabel)
            /\ last.out.annotations.ylabel = Label(ys[1], last.args.ylabel)
            /\ "barmode" \in DOMAIN last.out.figures[1].layout
            /\ (last.out.figures[1].layout.barmode = "stack")
                   <=> last.args.stack

\* C5. Every chart method, on a call that has nothing to fail on, builds its
\* traces and layout, hands them to the renderer exactly once and returns
\* True.
C5_RenderOnceThenTrue ==
    (IsChart /\ ValidCall) =>
        /\ last.out.error = "none"
        /\ Len(last.out.figures) = 1
        /\ last.out.ret = "True"

\* C6. two_y_axes with axis overrides that lack "y2", "x" or "y" fails with
\* the missing-key error (KeyError) and returns no layout.
C6_MissingAxisConfig ==
    (last.op = "two_y_axes"
     /\ ~({"x", "y", "y2"} \subseteq DOMAIN last.args.axis_args)) =>
        /\ last.out.error = "KeyError"
        /\ last.out.layout = NoLayout

\* C8. Visualize(data) with an input that is no table, no query, no
\* spreadsheet URL and no .csv path raises nothing, logs an error and leaves
\* the dataset None; every other input goes to exactly one loader, the
\* first that matches in the order table, query, spreadsheet URL, file path.
C8_Dispatch ==
    (last.op = "Visualize") =>
        LET raw == last.args.data
            text == StrReplace(raw.s, "\n", " ")
        IN  IF raw.type = "DataFrame"
            THEN /\ last.out.error = "none"
                 /\ last.out.df = raw.df
                 /\ last.out.loaders = << >>
            ELSE IF raw.type = "str" /\ MatchQuery(text)
            THEN last.out.loaders = <<"_process_bigquery">>
            ELSE IF raw.type = "str" /\ MatchGsheet(text)
            THEN last.out.loaders = <<"_process_gsheet">>
            ELSE IF raw.type = "str" /\ EndsCsv(text)
            THEN last.out.loaders = <<"pd.read_csv">>
            ELSE /\ last.out.error = "none"
                 /\ last.out.log # << >>
                 /\ last.out.df.isNone
                 /\ last.out.loaders = << >>
                 /\ self.exists /\ self.df.isNone

\* The annotations of the layout a call of one_axis_layout returned, and an
\* annotation's position in thousandths of a pixel of the plot area.
Annotations == last.out.layout.canvas.annotations
PixelsY(a) == a.y.whole * a.y.den + a.y.num
IsLayout == last.op = "one_axis_layout" /\ last.out.error = "none"

\* C9 as stated: the title's y position is above the y-label's by exactly
\* the title font size, title and y-label share their x position, and the
\* x-label sits at x = 0.5.
C9_TitleAboveByFontSize ==
    IsLayout =>
        /\ Annotations[1].y.den = Annotations[2].y.den
        /\ PixelsY(Annotations[1]) - PixelsY(Annotations[2])
               = TITLE_SIZE * 1000
        /\ Annotations[1].x = Annotations[2].x
        /\ Annotations[3].x.whole = 0
        /\ 2 * Annotations[3].x.num = Annotations[3].x.den

\* C9, amended. In pixels of the usable plot height (HEIGHT - top margin -
\* bottom margin) the title's y position is above the y-label's by the title
\* font size plus 10 (34 px); title and y-label share their x position; the
\* x-label sits at x = 0.5; and the placements depend on nothing but the
\* constants, the texts being the three strings given.
C9_TitleAboveByFontSizePlus10 ==
    IsLayout =>
        /\ Annotations[1].y.den = (HEIGHT - MARGIN.t - MARGIN.b) * 1000
        /\ Annotations[2].y.den = (HEIGHT - MARGIN.t - MARGIN.b) * 1000
        /\ PixelsY(Annotations[1]) - PixelsY(Annotations[2])
               = (TITLE_SIZE + 10) * 1000
        /\ PixelsY(Annotations[1])
               = (HEIGHT - MARGIN.b - 10) * 1000
        /\ Annotations[1].x = Annotations[2].x
        /\ Annotations[3].x.whole = 0
        /\ 2 * Annotations[3].x.num = Annotations[3].x.den
        /\ Annotations[3].y.whole = 0
        /\ Annotations[3].y.num = (10 - MARGIN.b) * 1000
        /\ Annotations[1].text = last.args.title
        /\ Annotations[2].text = last.args.ylabel
        /\ Annotations[3].text = last.args.xlabel

\* a layout was returned for a call with axis overrides
C9_Witness ==
    /\ IsLayout
    /\ last.args.axis_setting.given
    /\ PixelsY(Annotations[1]) - PixelsY(Annotations[2]) = 34000

HasLabels == IsChart /\ last.out.annotations # NoAnnotations

C10_WitnessDefault ==
    /\ HasLabels
    /\ last.op = "bar"
    /\ ~last.args.ylabel.given
    /\ AsList(last.args.y)[1] = sales_a
    /\ last.out.annotations.ylabel = <<"s", " ", "a">>

\* The call op(args) made on the instance obj.
ChartCall(obj, op, args) ==
    CASE op = "bar" ->
             bar(obj.df, args.x, args.y, args.title, args.stack,
                 args.horizontal, args.xlabel, args.ylabel)
      [] op = "combo" ->
             combo(obj.df, args.x, args.bars, args.lines, args.title,
                   args.xlabel, args.bar_label, args.line_label, args.stack)
      [] op = "dist" ->
             dist(obj.df, args.values, args.title, args.label, args.overlay,
                  args.prob, args.cumsum)
      [] op = "line" ->
             line(obj.df, args.x, args.y, args.title, args.xlabel,
                  args.ylabel)
      [] op = "scatter" ->
             scatter(obj.df, args.x, args.y, args.title, args.xlabel,
                     args.ylabel)
      [] op = "pie" ->
             pie(obj.df, args.x, args.y, args.title, args.xlabel,
                 args.ylabel)

====
